---- MODULE Spec2Model ----
(***************************************************************************)
(* Model of the context resolution engine of xinject (XContext):           *)
(* src/xinject/context.py and the thread-sharability declaration of        *)
(* src/xinject/dependency.py.                                              *)
(*                                                                         *)
(* A context (node) is a record of the private attributes of XContext.     *)
(* Every thread has its own value of the context variable                  *)
(* _current_context_contextvar (cur).  XContext.dependency is a machine of *)
(* frames (one per context of the parent chain); a call runs either as a   *)
(* whole (Get) or frame by frame (GetCall, GetStep), so that the lookups   *)
(* and stores of two threads can interleave.                               *)
(*                                                                         *)
(* _dependencies and _cached_parent_dependencies are dictionaries keyed by *)
(* the dependency type, and no operation on one key reads or writes the    *)
(* entry of another key.  A behaviour therefore follows the entries of one *)
(* type, ty, chosen in the initial state: deps and cache are the entries   *)
(* of ty in the two dictionaries.                                          *)
(***************************************************************************)
EXTENDS Integers, Sequences, FiniteSets, TLC

VARIABLES ctx, appRoot, cur, nextId, nextInst, maker, ty, stack, req, res, entered

vars == <<ctx, appRoot, cur, nextId, nextInst, maker, ty, stack, req, res, entered>>

(* ------------------------------ bounds --------------------------------- *)

\* XContext objects the program creates (by XContext(...) or by the copy a
\* re-entrant activation makes), besides the app-root and the thread-roots.
MaxNodes == 3
\* The same, in the specifications that mix every operation (SpecOne, Spec).
MaxBuilt == 2
\* Dependency objects constructed in one behaviour.
MaxInst == 2
\* Calls of _setup_blank_app_and_thread_root_contexts_globals after import.
MaxResets == 1

\* Two OS threads, each with its own context variable.
Threads == {1, 2}

\* Object identities: 1 is the app-root, 1 + t the thread-root of thread t
\* (grab creates it at most once per thread), then the program's objects in
\* the order of their creation.
FirstId == 2 + Cardinality(Threads)
\* The objects the program creates.
Program == FirstId..(FirstId + MaxNodes - 1)
\* A reset (_setup_blank_app_and_thread_root_contexts_globals called again)
\* allocates a new app-root, and the thread-roots created after it are new
\* objects as well: they take the identities after the program's objects.
Nodes == 1..(FirstId + MaxNodes - 1 + MaxResets * (1 + Cardinality(Threads)))
Insts == 1..MaxInst

(* --------------------------- program values ---------------------------- *)

\* None: no parent / no dependency / no current context / no sibling.
NoneV == 0
\* xsentinels Default: the parent is looked up dynamically.
DefaultP == -1

\* Two dependency types: "S" derives from Dependency (thread sharable),
\* "P" derives from DependencyPerThread (thread_sharable=False).
Types == {"S", "P"}
\* A type that does not derive from Dependency (int, str, a plain class).
Undeclared == "U"

\* The type has the attribute _dependency__meta that
\* is_dependency_thread_sharable reads.
HasMeta(T) == T \in Types

\* Variant: every type counts as thread sharable.
always_sharable(T) == TRUE

is_dependency_thread_sharable(T) == T = "S"

\* XContext.__init__ with parent = Default or None and no dependencies.
NewContext(p) ==
    [ alloc |-> TRUE,
      deps |-> NoneV,
      cache |-> NoneV,
      cached_chain |-> <<>>,
      parent |-> p,
      active |-> FALSE,
      children |-> {},
      sibling |-> NoneV,
      tokens |-> <<>>,
      origNone |-> (p = NoneV),
      isAppRoot |-> FALSE,
      isThreadRoot |-> FALSE ]

\* A slot of the object pool that no XContext object occupies yet.
FreeSlot == [NewContext(DefaultP) EXCEPT !.alloc = FALSE]

\* The app-root: XContext(parent=_TreatAsRootParent) made current with
\* is_app_root_context=True: parent None, active, not in the context variable.
AppRootContext ==
    [NewContext(NoneV) EXCEPT !.origNone = FALSE, !.active = TRUE, !.isAppRoot = TRUE]

\* Variant: the thread-root is not anchored to the app-root.
thread_root_without_parent(app) ==
    [NewContext(DefaultP) EXCEPT !.parent = NoneV, !.active = TRUE, !.isThreadRoot = TRUE]

\* The thread-root XContext.grab creates: parent Default resolved to the
\* app-root (nothing is current), active, not registered as a child of the app-root.
ThreadRootContext(app) ==
    [NewContext(DefaultP) EXCEPT !.parent = app, !.active = TRUE, !.isThreadRoot = TRUE]

\* The outcome of a call, as its caller sees it.
\* An add also records what the context held locally before it (held) and
\* which contexts had a cached value (stale).  A dependency call that
\* directly follows an add of the same thread carries these along, with the
\* added object (added) and the context it was added to (addedTo).  An exit
\* records the context that was current before the matching enter (before).
\* A dependency call that directly repeats a call of the same thread on the
\* same context (again) carries the object the first call returned (prev).
\* An exit that directly follows an add carries the added object and its
\* context along, and so does the dependency call that directly follows that
\* exit, with the context the exit deactivated (exited).
NoOp ==
    [ op |-> "none", node |-> 0, create |-> TRUE, val |-> 0, err |-> "none",
      added |-> 0, addedTo |-> 0, held |-> 0, stale |-> {}, before |-> 0,
      again |-> FALSE, prev |-> 0, exited |-> 0, chain |-> <<>> ]

Done(op, n, cr, v) == [NoOp EXCEPT !.op = op, !.node = n, !.create = cr, !.val = v]

Failed(op, n, cr, e) == [NoOp EXCEPT !.op = op, !.node = n, !.create = cr, !.err = e]

(* ------------------------------- Init ---------------------------------- *)

\* _setup_blank_app_and_thread_root_contexts_globals at import time; the
\* behaviour follows a type of TT.
InitWith(TT) ==
    /\ ctx = [n \in Nodes |-> IF n = 1 THEN AppRootContext ELSE FreeSlot]
    /\ appRoot = 1
    /\ cur = [t \in Threads |-> NoneV]
    /\ nextId = FirstId
    /\ nextInst = 1
    /\ maker = [i \in Insts |-> 0]
    /\ ty \in TT
    /\ stack = [t \in Threads |-> <<>>]
    /\ req = [t \in Threads |-> NoOp]
    /\ res = [t \in Threads |-> NoOp]
    /\ entered = [t \in Threads |-> <<>>]

Init == InitWith(Types)

(* ------------------------- helpers of XContext ------------------------- *)

\* The thread-root of thread t under the present app-root.
ThreadRootId(t) == appRoot + t

\* Thread t is between two calls: not inside dependency, and the outcome of
\* its previous call has been taken.
Idle(t) == stack[t] = <<>> /\ res[t] = NoOp

\* XContext.grab on thread t, applied to a context map c and a context
\* variable cu: the current context, or a new thread-root made current.
GrabNode(cu, t) == IF cu[t] # NoneV THEN cu[t] ELSE ThreadRootId(t)

GrabCtx(c, cu, t) ==
    IF cu[t] # NoneV THEN c ELSE [c EXCEPT ![ThreadRootId(t)] = ThreadRootContext(appRoot)]

GrabCur(cu, t) == IF cu[t] # NoneV THEN cu ELSE [cu EXCEPT ![t] = ThreadRootId(t)]

\* The nodes _remove_cached_dependency_and_in_children visits from n:
\* n and, recursively, the members of _children.
RECURSIVE Below(_, _, _)
Below(c, front, seen) ==
    IF front \subseteq seen THEN seen
    ELSE Below(c, UNION {c[m].children : m \in front}, seen \cup front)

\* Variant: only the context's own cached value is dropped.
remove_cached_in_self_only(c, n) == [c EXCEPT ![n].cache = NoneV]

_remove_cached_dependency_and_in_children(c, n) ==
    [m \in Nodes |-> IF m \in Below(c, {n}, {})
                     THEN [c[m] EXCEPT !.cache = NoneV]
                     ELSE c[m]]

\* Variant: add does not forward to the sibling.
add_without_forward(c, n, x) ==
    _remove_cached_dependency_and_in_children([c EXCEPT ![n].deps = x], n)

\* Variant: add drops the cached values but does not store the object.
add_without_store(c, n, x) == _remove_cached_dependency_and_in_children(c, n)

\* XContext.add: store, forward to the sibling, drop the cached values.
RECURSIVE add(_, _, _)
add(c, n, x) ==
    LET c1 == [c EXCEPT ![n].deps = x]
        c2 == IF c1[n].sibling # NoneV THEN add(c1, c1[n].sibling, x) ELSE c1
    IN  _remove_cached_dependency_and_in_children(c2, n)

\* Variant: the copy starts without dependencies.
copy_without_dependencies(c, n) == NewContext(IF c[n].origNone THEN NoneV ELSE DefaultP)

\* XContext.__copy__: a blank context with the same parent configuration
\* and a shallow copy of _dependencies.
copy(c, n) ==
    [NewContext(IF c[n].origNone THEN NoneV ELSE DefaultP) EXCEPT !.deps = c[n].deps]

\* XContext._reset_caches
_reset_caches(node) == [node EXCEPT !.cache = NoneV, !.cached_chain = <<>>]

(* ------------------ XContext.dependency, frame by frame ---------------- *)

\* One activation of XContext.dependency: the context it runs on, where it
\* is (start: before the parent is asked; wait: inside parent.dependency;
\* finish: after it), and parent_value.
Frame(n) == [node |-> n, pc |-> "start", pv |-> NoneV]

\* What a call of dependency on thread t works on.
GetState(t) ==
    [ctx |-> ctx, cur |-> cur, nextInst |-> nextInst,
     maker |-> maker, stack |-> stack[t], status |-> "run", ret |-> NoneV,
     fails |-> FALSE]

\* The frame on top returns v: to the frame of its caller, or to the user.
return(m, v) ==
    LET k == Len(m.stack)
    IN  IF k = 1
        THEN [m EXCEPT !.stack = <<>>, !.status = "done", !.ret = v]
        ELSE [m EXCEPT !.stack = [i \in 1..(k - 1) |->
                                     IF i = k - 1
                                     THEN [m.stack[i] EXCEPT !.pv = v, !.pc = "finish"]
                                     ELSE m.stack[i]]]

\* XContext.parent raises: active with a Default parent, or not active with
\* an explicit parent.
ParentRaises(node) ==
    \/ node.active /\ node.parent = DefaultP
    \/ ~node.active /\ node.parent \notin {DefaultP, NoneV}

\* The deepest chain of calls the interpreter runs before RecursionError.
RecursionLimit == Cardinality(Nodes) + 1

\* First part of dependency: lookup in self, in the cached parent
\* dependencies, the app-root gate (is_dependency_thread_sharable reads
\* for_type._dependency__meta: AttributeError for a type without it),
\* XContext.parent, and the call of parent.dependency.  XContext.parent
\* never returns Default, so the branch "if parent is Default" of dependency,
\* with its check that the parent is not self, is never taken.
dependency_start(m, t) ==
    LET k == Len(m.stack)
        n == m.stack[k].node
        node == m.ctx[n]
        found == IF node.deps # NoneV THEN node.deps ELSE node.cache
        gate == node.isAppRoot /\ ~is_dependency_thread_sharable(ty)
        dynamic == ~node.active /\ node.parent = DefaultP
        parent == IF dynamic THEN GrabNode(m.cur, t) ELSE node.parent
    IN  IF found = NoneV /\ node.isAppRoot /\ ~HasMeta(ty)
        THEN [m EXCEPT !.stack = <<>>, !.status = "AttributeError"]
        ELSE IF found # NoneV \/ gate THEN return(m, found)
        ELSE IF ParentRaises(node)
        THEN [m EXCEPT !.stack = <<>>, !.status = "XInjectError"]
        ELSE IF parent = NoneV
        THEN [m EXCEPT !.stack[k].pc = "finish"]
        ELSE IF k >= RecursionLimit
        THEN [m EXCEPT !.stack = <<>>, !.status = "RecursionError"]
        ELSE [m EXCEPT
                !.ctx = IF dynamic THEN GrabCtx(m.ctx, m.cur, t) ELSE @,
                !.cur = IF dynamic THEN GrabCur(m.cur, t) ELSE @,
                !.stack = Append([@ EXCEPT ![k].pc = "wait"], Frame(parent))]

\* Variant: the second part of dependency stores or caches whatever create is.
finish_ignoring_create(m, t, create) ==
    LET k == Len(m.stack)
        n == m.stack[k].node
        pv == m.stack[k].pv
    IN  IF pv = NoneV
        THEN IF m.nextInst > MaxInst THEN [m EXCEPT !.status = "blocked"]
             ELSE return([m EXCEPT !.ctx[n].deps = m.nextInst,
                                   !.maker[m.nextInst] = t,
                                   !.nextInst = @ + 1],
                         m.nextInst)
        ELSE return([m EXCEPT !.ctx[n].cache = pv], pv)

\* Variant: the object is stored before its construction raises.
raises_after_store(m) ==
    [m EXCEPT !.ctx[m.stack[Len(m.stack)].node].deps = m.nextInst,
              !.stack = <<>>, !.status = "ConstructorError"]

\* obj = for_type() raises: the exception leaves every frame of the call,
\* before the assignment to self._dependencies.
constructor_raises(m) == [m EXCEPT !.stack = <<>>, !.status = "ConstructorError"]

\* Second part of dependency, after the parent returned parent_value:
\* return it (create=False), construct and store, or cache it.  The
\* constructor raises in a call made with fails.
dependency_finish(m, t, create) ==
    LET k == Len(m.stack)
        n == m.stack[k].node
        pv == m.stack[k].pv
    IN  IF ~create THEN return(m, pv)
        ELSE IF pv = NoneV
        THEN IF m.fails THEN constructor_raises(m)
             ELSE IF m.nextInst > MaxInst THEN [m EXCEPT !.status = "blocked"]
             ELSE return([m EXCEPT !.ctx[n].deps = m.nextInst,
                                   !.maker[m.nextInst] = t,
                                   !.nextInst = @ + 1],
                         m.nextInst)
        ELSE return([m EXCEPT !.ctx[n].cache = pv], pv)

\* One step of the frame on top.
dependency_step(m, t, create) ==
    IF m.stack[Len(m.stack)].pc = "start"
    THEN dependency_start(m, t)
    ELSE dependency_finish(m, t, create)

\* The call runs until it returns or raises (or the pools are used up).
RECURSIVE dependency(_, _, _)
dependency(m, t, create) ==
    IF m.status # "run" THEN m
    ELSE dependency(dependency_step(m, t, create), t, create)

Outcome(m, n, create, x) ==
    LET r == IF m.status = "done" THEN Done("get", n, create, m.ret)
             ELSE Failed("get", n, create, m.status)
    IN  [r EXCEPT !.added = x.added, !.addedTo = x.addedTo, !.held = x.held,
                  !.stale = x.stale, !.again = x.again, !.prev = x.prev,
                  !.exited = x.exited]

\* Thread t has just added to a context and has made no other call since.
JustAdded(t) == stack[t] = <<>> /\ res[t].op = "add"

\* Thread t has just left a scope, directly after an add.
JustExited(t) ==
    stack[t] = <<>> /\ res[t].op = "exit" /\ res[t].err = "none" /\ res[t].added # NoneV

\* What the call that thread t makes now follows.
Added(t) ==
    IF JustAdded(t)
    THEN [NoOp EXCEPT !.added = res[t].val, !.addedTo = res[t].node,
                      !.held = res[t].held, !.stale = res[t].stale]
    ELSE IF JustExited(t)
    THEN [NoOp EXCEPT !.added = res[t].added, !.addedTo = res[t].addedTo,
                      !.exited = res[t].val]
    ELSE NoOp

(* ------------------------------ actions -------------------------------- *)

\* XContext(parent=p): a new inactive context without dependencies.
Create(t, p) ==
    /\ Idle(t)
    /\ nextId \in Program
    /\ ctx' = [ctx EXCEPT ![nextId] = NewContext(p)]
    /\ nextId' = nextId + 1
    /\ UNCHANGED <<appRoot, cur, nextInst, maker, ty, stack, req, res, entered>>

\* n.add(x, for_type=ty) with a new object x the caller constructed.
Add(t, n) ==
    /\ Idle(t)
    /\ ctx[n].alloc
    /\ nextInst <= MaxInst
    /\ ctx' = add(ctx, n, nextInst)
    /\ nextInst' = nextInst + 1
    /\ res' = [res EXCEPT ![t] =
                  [Done("add", n, TRUE, nextInst) EXCEPT
                      !.held = ctx[n].deps,
                      !.stale = {m \in Nodes : ctx[m].cache # NoneV}]]
    /\ UNCHANGED <<appRoot, cur, nextId, maker, ty, stack, req, entered>>

\* XContext.grab() on thread t.
Grab(t) ==
    /\ Idle(t)
    /\ ctx' = GrabCtx(ctx, cur, t)
    /\ cur' = GrabCur(cur, t)
    /\ UNCHANGED <<appRoot, nextId, nextInst, maker, ty, stack, req, res, entered>>

\* n.dependency(ty, create=cr) on thread t, run as a whole.
Get(t, n, cr) ==
    LET m == dependency([GetState(t) EXCEPT !.stack = <<Frame(n)>>], t, cr)
    IN  /\ Idle(t) \/ JustAdded(t) \/ JustExited(t)
        /\ ctx[n].alloc
        /\ m.status # "blocked"
        /\ ctx' = m.ctx
        /\ cur' = m.cur
        /\ nextInst' = m.nextInst
        /\ maker' = m.maker
        /\ res' = [res EXCEPT ![t] = Outcome(m, n, cr, Added(t))]
        /\ UNCHANGED <<appRoot, nextId, ty, stack, req, entered>>

\* n.dependency(ty, create=True) on thread t, run as a whole, for a type
\* whose constructor raises.
GetRaising(t, n) ==
    LET m == dependency([GetState(t) EXCEPT !.stack = <<Frame(n)>>, !.fails = TRUE], t, TRUE)
    IN  /\ Idle(t)
        /\ ctx[n].alloc
        /\ m.status # "blocked"
        /\ ctx' = m.ctx
        /\ cur' = m.cur
        /\ nextInst' = m.nextInst
        /\ maker' = m.maker
        /\ res' = [res EXCEPT ![t] = Outcome(m, n, TRUE, NoOp)]
        /\ UNCHANGED <<appRoot, nextId, ty, stack, req, entered>>

\* n.dependency(ty, create=cr) is called on thread t.
GetCall(t, n, cr) ==
    /\ Idle(t)
    /\ ctx[n].alloc
    /\ stack' = [stack EXCEPT ![t] = <<Frame(n)>>]
    /\ req' = [req EXCEPT ![t] = Done("get", n, cr, NoneV)]
    /\ UNCHANGED <<ctx, appRoot, cur, nextId, nextInst, maker, ty, res, entered>>

\* The call of thread t advances by one step of its top frame.
GetStep(t) ==
    /\ stack[t] # <<>>
    /\ LET m == dependency_step(GetState(t), t, req[t].create)
       IN  /\ m.status # "blocked"
           /\ ctx' = m.ctx
           /\ cur' = m.cur
           /\ nextInst' = m.nextInst
           /\ maker' = m.maker
           /\ stack' = [stack EXCEPT ![t] = m.stack]
           /\ res' = IF m.status = "run" THEN res
                     ELSE [res EXCEPT ![t] = Outcome(m, req[t].node, req[t].create, req[t])]
           /\ req' = IF m.status = "run" THEN req ELSE [req EXCEPT ![t] = NoOp]
    /\ UNCHANGED <<appRoot, nextId, ty, entered>>

\* Thread t, holding the object n.dependency(ty) returned, calls
\* n.dependency(ty) once more.
Repeating(t) == stack[t] = <<>> /\ res[t].op = "get" /\ res[t].err = "none" /\ res[t].create

GetCallAgain(t) ==
    /\ Repeating(t)
    /\ ~res[t].again
    /\ stack' = [stack EXCEPT ![t] = <<Frame(res[t].node)>>]
    /\ req' = [req EXCEPT ![t] =
                  [Done("get", res[t].node, TRUE, NoneV) EXCEPT
                      !.again = TRUE, !.prev = res[t].val]]
    /\ res' = [res EXCEPT ![t] = NoOp]
    /\ UNCHANGED <<ctx, appRoot, cur, nextId, nextInst, maker, ty, entered>>

\* The loop of XContext.parent_chain from context n on: the chain from n
\* up, with the thread-root XContext.grab creates on the way and the error
\* XContext.parent raises; a loop that does not end after k rounds is cut.
RECURSIVE chain_from(_, _, _, _, _)
chain_from(c, cu, t, n, k) ==
    IF ParentRaises(c[n])
    THEN [ctx |-> c, cur |-> cu, chain |-> <<n>>, err |-> "XInjectError"]
    ELSE LET dynamic == ~c[n].active /\ c[n].parent = DefaultP
             c1 == IF dynamic THEN GrabCtx(c, cu, t) ELSE c
             cu1 == IF dynamic THEN GrabCur(cu, t) ELSE cu
             p == IF dynamic THEN GrabNode(cu, t) ELSE c[n].parent
         IN  IF p = NoneV
             THEN [ctx |-> c1, cur |-> cu1, chain |-> <<n>>, err |-> "none"]
             ELSE IF k = 0
             THEN [ctx |-> c1, cur |-> cu1, chain |-> <<n>>, err |-> "MemoryError"]
             ELSE LET r == chain_from(c1, cu1, t, p, k - 1)
                  IN  [r EXCEPT !.chain = <<n>> \o @]

\* self._cached_context_chain, as parent_chain reads it.
_cached_context_chain(c, n) == c[n].cached_chain

\* n.parent_chain() on thread t: the cached list, or the list of n and its
\* parents, cached when n is active.
ParentChain(t, n) ==
    LET cached == _cached_context_chain(ctx, n)
        r == chain_from(ctx, cur, t, n, Cardinality(Nodes))
        c1 == IF r.err = "none" /\ r.ctx[n].active
              THEN [r.ctx EXCEPT ![n].cached_chain = r.chain]
              ELSE r.ctx
    IN  /\ Idle(t)
        /\ ctx[n].alloc
        /\ IF cached # <<>>
           THEN /\ res' = [res EXCEPT ![t] = [Done("parent_chain", n, FALSE, NoneV)
                                                 EXCEPT !.chain = cached]]
                /\ UNCHANGED <<ctx, cur>>
           ELSE /\ res' = [res EXCEPT ![t] =
                              IF r.err = "none"
                              THEN [Done("parent_chain", n, FALSE, NoneV) EXCEPT !.chain = r.chain]
                              ELSE Failed("parent_chain", n, FALSE, r.err)]
                /\ ctx' = c1
                /\ cur' = r.cur
        /\ UNCHANGED <<appRoot, nextId, nextInst, maker, ty, stack, req, entered>>

\* n.copy() on thread t: copy.copy(n), a new context object.
Copy(t, n) ==
    /\ Idle(t)
    /\ ctx[n].alloc
    /\ nextId \in Program
    /\ ctx' = [ctx EXCEPT ![nextId] = copy(ctx, n)]
    /\ nextId' = nextId + 1
    /\ res' = [res EXCEPT ![t] = Done("copy", n, FALSE, nextId)]
    /\ UNCHANGED <<appRoot, cur, nextInst, maker, ty, stack, req, entered>>

\* The first root identity that no reset has used.
NextRoot == IF appRoot = 1 THEN FirstId + MaxNodes ELSE appRoot + 1 + Cardinality(Threads)

\* Variant: the reset keeps the context variable and its values.
same_context_var(cu) == cu

\* contextvars.ContextVar('py-xinject-current_context', default=None): a new
\* variable replaces the one that held the values cu.
new_context_var(cu) == [u \in Threads |-> NoneV]

\* _setup_blank_app_and_thread_root_contexts_globals() called by thread t
\* (as xinject_test_context does around every test): a new app-root and a new
\* context variable, in which no thread has a current context.
Reset(t) ==
    /\ Idle(t)
    /\ NextRoot \in Nodes
    /\ appRoot' = NextRoot
    /\ ctx' = [ctx EXCEPT ![NextRoot] = AppRootContext]
    /\ cur' = new_context_var(cur)
    /\ UNCHANGED <<nextId, nextInst, maker, ty, stack, req, res, entered>>

\* copy.deepcopy(n) on thread t: XContext.__deepcopy__ raises.
DeepCopy(t, n) ==
    /\ Idle(t)
    /\ ctx[n].alloc
    /\ res' = [res EXCEPT ![t] = Failed("deepcopy", n, FALSE, "NotImplementedError")]
    /\ UNCHANGED <<ctx, appRoot, cur, nextId, nextInst, maker, ty, stack, req, entered>>

\* The caller on thread t takes the outcome of the call that just ended.
Return(t) ==
    /\ res[t] # NoOp
    /\ res' = [res EXCEPT ![t] = NoOp]
    /\ UNCHANGED <<ctx, appRoot, cur, nextId, nextInst, maker, ty, stack, req, entered>>

\* Variant: __enter__ always takes the context for active, and copies it.
always_active(c, n) == TRUE

\* self._is_active, as __enter__ reads it.
_is_active(c, n) == c[n].active

\* XContext.__enter__ on thread t: activates n, or a copy of n whose
\* sibling is n when n is already active (_make_current_and_get_reset_token
\* resolves the Default parent, registers the child, sets the context variable).
Enter(t, n) ==
    LET new == IF _is_active(ctx, n) THEN nextId ELSE n
        c0 == IF _is_active(ctx, n)
              THEN [ctx EXCEPT ![new] = [copy(ctx, n) EXCEPT !.sibling = n]]
              ELSE ctx
        p == IF c0[new].parent = DefaultP
             THEN (IF cur[t] # NoneV THEN cur[t] ELSE appRoot)
             ELSE c0[new].parent
        c1 == [c0 EXCEPT ![new].parent = p, ![new].active = TRUE]
        c2 == IF p # NoneV /\ ~c1[p].isAppRoot
              THEN [c1 EXCEPT ![p].children = @ \cup {new}]
              ELSE c1
        token == [thr |-> t, old |-> cur[t], var |-> appRoot]
    IN  /\ Idle(t)
        /\ ctx[n].alloc
        /\ _is_active(ctx, n) => nextId \in Program
        /\ ctx' = [c2 EXCEPT ![n].tokens = Append(@, token)]
        /\ cur' = [cur EXCEPT ![t] = new]
        /\ nextId' = IF _is_active(ctx, n) THEN nextId + 1 ELSE nextId
        /\ entered' = [entered EXCEPT ![t] = Append(@, [node |-> n, before |-> cur[t]])]
        /\ UNCHANGED <<appRoot, nextInst, maker, ty, stack, req, res>>

\* context_to_deactivate._parent._children.remove(context_to_deactivate)
_children_remove(c, p, d) == [c EXCEPT ![p].children = @ \ {d}]

\* XContext.__exit__ on thread t. The outcome is the first check that fails,
\* with the assignments made before it kept.
Exit(t, n) ==
    LET token == ctx[n].tokens[Len(ctx[n].tokens)]
        c1 == [ctx EXCEPT ![n].tokens = SubSeq(@, 1, Len(@) - 1)]
        current == GrabNode(cur, t)
        c2 == GrabCtx(c1, cur, t)
        cu2 == GrabCur(cur, t)
        hasSibling == c2[current].sibling # NoneV
        deact == IF hasSibling THEN current ELSE n
        cu3 == [cu2 EXCEPT ![t] = token.old]
        c3 == [c2 EXCEPT ![deact] = _reset_caches([@ EXCEPT !.active = FALSE])]
        p == c3[deact].parent
        hasParent == p # NoneV /\ p # DefaultP
        c4 == IF hasParent
              THEN [_children_remove(c3, p, deact) EXCEPT ![deact].parent = DefaultP]
              ELSE c3
        err == IF hasSibling /\ c2[current].sibling # n THEN "AssertionError:sibling"
               ELSE IF ~hasSibling /\ current # n THEN "AssertionError:current"
               ELSE IF c2[deact].tokens # <<>> THEN "AssertionError:token"
               ELSE IF token.thr # t \/ token.var # appRoot THEN "ValueError"
               ELSE IF hasParent /\ deact \notin c3[p].children THEN "KeyError"
               ELSE IF c4[deact].children # {} THEN "AssertionError:children"
               ELSE "none"
        early == err \in {"AssertionError:sibling", "AssertionError:current",
                          "AssertionError:token", "ValueError"}
        matching == entered[t] # <<>> /\ entered[t][Len(entered[t])].node = n
        before == IF matching THEN entered[t][Len(entered[t])].before ELSE NoneV
        carried == [NoOp EXCEPT !.before = before, !.added = Added(t).added,
                                !.addedTo = Added(t).addedTo]
    IN  /\ Idle(t) \/ JustAdded(t)
        /\ ctx[n].alloc
        /\ entered' = [entered EXCEPT ![t] =
                          IF matching THEN SubSeq(@, 1, Len(@) - 1) ELSE @]
        /\ UNCHANGED <<appRoot, nextId, nextInst, maker, ty, stack, req>>
        /\ IF ctx[n].tokens = <<>>
           THEN /\ res' = [res EXCEPT ![t] =
                              [carried EXCEPT !.op = "exit", !.node = n, !.err = "IndexError"]]
                /\ UNCHANGED <<ctx, cur>>
           ELSE /\ res' = [res EXCEPT ![t] =
                              [carried EXCEPT !.op = "exit", !.node = n, !.err = err,
                                              !.val = IF err = "none" THEN deact ELSE NoneV]]
                /\ ctx' = IF early THEN c2 ELSE IF err = "KeyError" THEN c3 ELSE c4
                /\ cur' = IF early THEN cu2 ELSE cu3

(* --------------------------- specifications ---------------------------- *)

\* No other thread is inside a call: the calls of different threads do not
\* overlap.
Alone(t) == \A u \in Threads \ {t} : Idle(u)

\* The thread that builds the program's objects.
MainThread == CHOOSE t \in Threads : \A u \in Threads : t <= u

\* The program may build one more context in SpecOne and Spec.
Built == nextId < FirstId + MaxBuilt

\* The scope thread t entered last and has not left.
Innermost(t) == entered[t][Len(entered[t])].node

\* One thread, properly nested use: the program enters the contexts it
\* created, and an exit is always the exit of the innermost scope the thread
\* entered.
NextOne ==
    \/ \E p \in {DefaultP, NoneV} : Built /\ Create(MainThread, p)
    \/ \E n \in Nodes : Add(MainThread, n)
    \/ Grab(MainThread)
    \/ \E n \in Nodes : n >= FirstId /\ (ctx[n].active => Built) /\ Enter(MainThread, n)
    \/ /\ Idle(MainThread)
       /\ entered[MainThread] # <<>>
       /\ Exit(MainThread, Innermost(MainThread))
    \/ \E n \in Nodes, cr \in BOOLEAN : Get(MainThread, n, cr)
    \/ Return(MainThread)

SpecOne == Init /\ [][NextOne]_vars

\* Two threads that share every context object; their calls do not overlap.
\* The main thread builds the objects and adds to the app-root; each thread
\* first gets its thread-root, then enters and leaves the program's contexts
\* in properly nested order and asks the app-root, its own thread-root or
\* one of the program's contexts for the dependency.
Next ==
    \/ Alone(MainThread) /\ Built /\ Create(MainThread, DefaultP)
    \/ Alone(MainThread) /\ Add(MainThread, appRoot)
    \/ \E t \in Threads : Alone(t) /\ cur[t] = NoneV /\ Grab(t)
    \/ \E t \in Threads, n \in Nodes :
          /\ Alone(t) /\ cur[t] # NoneV /\ n >= FirstId
          /\ ctx[n].active => Built
          /\ Enter(t, n)
    \/ \E t \in Threads :
          Alone(t) /\ Idle(t) /\ entered[t] # <<>> /\ Exit(t, Innermost(t))
    \/ \E t \in Threads, n \in Nodes :
          Alone(t) /\ (n >= FirstId \/ n \in {appRoot, ThreadRootId(t)}) /\ Get(t, n, TRUE)
    \/ \E t \in Threads : Return(t)

Spec == Init /\ [][Next]_vars

\* Two threads, nothing added: each asks its own current context,
\* XContext.grab().dependency(ty), and the calls overlap step by step.
NextConc ==
    \/ \E t \in Threads : cur[t] = NoneV /\ Grab(t)
    \/ \E t \in Threads, cr \in BOOLEAN : cur[t] # NoneV /\ GetCall(t, cur[t], cr)
    \/ \E t \in Threads : GetStep(t)
    \/ \E t \in Threads : Return(t)

SpecConc == Init /\ [][NextConc]_vars

\* Two threads, nothing added: each asks the app-root or its own current
\* context, may repeat the call at once, and the calls overlap step by step.
NextRepeat ==
    \/ \E t \in Threads : cur[t] = NoneV /\ Grab(t)
    \/ \E t \in Threads, n \in Nodes :
          cur[t] # NoneV /\ n \in {appRoot, cur[t]} /\ GetCall(t, n, TRUE)
    \/ \E t \in Threads : GetCallAgain(t)
    \/ \E t \in Threads : GetStep(t)
    \/ \E t \in Threads : Return(t)

SpecRepeat == Init /\ [][NextRepeat]_vars

\* One thread and one context the program creates, entered again and again
\* while it is active (as is its copy): the program adds to the contexts,
\* leaves the innermost scope and asks the contexts for the dependency.
NextSibling ==
    \/ nextId = FirstId /\ Create(MainThread, DefaultP)
    \/ \E n \in Nodes : n >= FirstId /\ Enter(MainThread, n)
    \/ \E n \in Nodes : n >= FirstId /\ Add(MainThread, n)
    \/ entered[MainThread] # <<>> /\ Exit(MainThread, Innermost(MainThread))
    \/ \E n \in Nodes : n >= FirstId /\ Get(MainThread, n, TRUE)
    \/ Return(MainThread)

SpecSibling == Init /\ [][NextSibling]_vars

\* Sanity of the model: the pools are respected, the program's objects are
\* allocated in order, and no call runs into the recursion limit.
TypeOK ==
    /\ nextInst \in 1..(MaxInst + 1)
    /\ \A n \in Program : ctx[n].alloc <=> n < nextId
    /\ \A t \in Threads : res[t].err # "RecursionError"

(* ------------------------- notions of the claims ----------------------- *)

\* The nearest context of n's parent chain that holds ty in its
\* _dependencies (n itself first), or None.
RECURSIVE NearestHolder(_, _)
NearestHolder(n, k) ==
    IF ctx[n].deps # NoneV THEN n
    ELSE IF k = 0 \/ ctx[n].parent \notin Nodes THEN NoneV
    ELSE NearestHolder(ctx[n].parent, k - 1)

Holder(n) == NearestHolder(n, Cardinality(Nodes))

\* The contexts above n in an entered chain: every context from n up to
\* them is active.
RECURSIVE Above(_, _)
Above(n, k) ==
    IF k = 0 \/ ~ctx[n].active \/ ctx[n].parent \notin Nodes THEN {}
    ELSE IF ~ctx[ctx[n].parent].active THEN {}
    ELSE {ctx[n].parent} \cup Above(ctx[n].parent, k - 1)

\* a and n are in one entered chain, a = n or a above n.
InChain(a, n) ==
    /\ ctx[n].active
    /\ a = n \/ a \in Above(n, Cardinality(Nodes))

\* The contexts of the entered chain from n up to, and without, r.
Path(n, r) == {m \in Nodes : InChain(m, n) /\ m # r /\ InChain(r, m)}

\* Thread t has the result of a dependency call that returned.
GetDone(t) == res[t].op = "get" /\ res[t].err = "none"

(* ------------------------------- claims -------------------------------- *)

\* C1: whenever get on an active context returns, and some context of its
\* parent chain holds the type locally, the result is the object held by the
\* nearest such context.
C1_NearestHolder ==
    \A t \in Threads :
        (GetDone(t) /\ ctx[res[t].node].active /\ Holder(res[t].node) # NoneV)
            => res[t].val = ctx[Holder(res[t].node)].deps

\* C2: round trip: a get that directly follows n.add(x) on the same context
\* returns x, whatever the context had cached before and whether it is
\* active or not.
C2_RoundTrip ==
    \A t \in Threads :
        (res[t].op = "get" /\ res[t].addedTo = res[t].node)
            => (res[t].err = "none" /\ res[t].val = res[t].added)

\* A get directly after an add on a context that had a cached value.
C2_Witness ==
    \E t \in Threads :
        /\ GetDone(t)
        /\ res[t].addedTo = res[t].node
        /\ res[t].node \in res[t].stale
        /\ res[t].val = res[t].added

\* C3: add on a context that already holds the type locally fails and leaves
\* the held object in place.
C3_DuplicateRefused ==
    \A t \in Threads :
        (res[t].op = "add" /\ res[t].held # NoneV)
            => (res[t].err # "none" /\ ctx[res[t].node].deps = res[t].held)

\* C4: stack balance: after the exit that matches an enter, the context that
\* was current before the enter is current again.
C4_StackBalance ==
    \A t \in Threads : res[t].op = "exit" => cur[t] = res[t].before

\* C5: cache invalidation in an entered chain below the app-root: after add
\* on a context, neither that context nor any context below it in the chain
\* has a cached value, and the get that follows on a context of the chain
\* returns the object of the nearest local holder.
C5_Invalidation ==
    \A t \in Threads, n \in Nodes :
        /\ (res[t].op = "add" /\ res[t].node # appRoot /\ InChain(res[t].node, n))
              => ctx[n].cache = NoneV
        /\ (res[t].op = "get" /\ res[t].node = n /\ res[t].addedTo \in Nodes \ {appRoot}
                /\ InChain(res[t].addedTo, n))
              => /\ res[t].err = "none"
                 /\ Holder(n) # NoneV
                 /\ res[t].val = ctx[Holder(n)].deps

\* The chain R <- C1 <- C2 with cached values in C1 and C2: after add on R,
\* the get on C2 returns the added object.
C5_Witness ==
    \E t \in Threads :
        /\ GetDone(t)
        /\ res[t].addedTo \in Nodes \ {appRoot}
        /\ InChain(res[t].addedTo, res[t].node)
        /\ Cardinality(Path(res[t].node, res[t].addedTo)) = 2
        /\ \A m \in Path(res[t].node, res[t].addedTo) : ctx[m].sibling = NoneV
        /\ Path(res[t].node, res[t].addedTo) \subseteq res[t].stale
        /\ res[t].val = res[t].added

\* C6: an add on the app-root is visible at once: the get that follows on an
\* active context below the app-root with no nearer local holder returns the
\* added object.
C6_AppRootAddVisible ==
    \A t \in Threads :
        (GetDone(t) /\ res[t].addedTo = appRoot /\ ctx[res[t].node].active
            /\ Holder(res[t].node) = appRoot)
            => res[t].val = res[t].added

\* C7: thread isolation: for a type that is not thread sharable, with nothing
\* added, what a thread gets from its current context is the object its own
\* thread-root holds, constructed by that thread, at most one per thread, and
\* different from what the other thread gets.
C7_ThreadIsolation ==
    ty = "P" =>
        /\ \A t \in Threads :
              res[t].op = "get"
                  => /\ res[t].err = "none"
                     /\ res[t].val = ctx[ThreadRootId(t)].deps
                     /\ res[t].create => res[t].val # NoneV
                     /\ res[t].val # NoneV => maker[res[t].val] = t
        /\ \A t \in Threads : Cardinality({i \in Insts : maker[i] = t}) <= 1
        /\ \A t, u \in Threads :
              (t # u /\ GetDone(t) /\ GetDone(u) /\ res[t].val # NoneV)
                  => res[t].val # res[u].val

\* Both threads hold the result of a get at the same time.
C7_Witness ==
    /\ ty = "P"
    /\ \A t \in Threads : GetDone(t) /\ res[t].val # NoneV

\* C8: for a thread sharable type with nothing added, two threads that get it
\* receive the same object.
C8_SharedInstance ==
    ty = "S" =>
        \A t, u \in Threads :
            (GetDone(t) /\ GetDone(u) /\ res[t].val # NoneV /\ res[u].val # NoneV)
                => res[t].val = res[u].val

\* C9: an object that get constructed for a type that is not thread sharable
\* is returned only to the thread that constructed it, and the app-root never
\* holds it.
C9_NoEscape ==
    ty = "P" =>
        /\ \A t \in Threads :
              (GetDone(t) /\ res[t].val # NoneV) => maker[res[t].val] \in {0, t}
        /\ ctx[appRoot].deps # NoneV => maker[ctx[appRoot].deps] = 0

\* C10: parent-chain caching: when get on a context of an entered chain
\* returns and the nearest local holder r is a context of that chain below
\* the app-root, the result is r's object, every context from the asked one
\* up to r has it cached, and none of them holds it locally.
C10_ChainCaching ==
    \A t \in Threads :
        LET n == res[t].node
            r == Holder(n)
        IN  (GetDone(t) /\ res[t].create /\ ctx[n].active /\ r \in Nodes \ {appRoot, n}
                /\ InChain(r, n))
                => /\ res[t].val = ctx[r].deps
                   /\ \A m \in Path(n, r) :
                         ctx[m].cache = ctx[r].deps /\ ctx[m].deps = NoneV

(* ------------------- notions of the claims C11 to C20 ------------------ *)

\* XContext.parent of n in the context map c, asked on thread t whose
\* context variable is cu: the current context (the thread-root when nothing
\* is current) for an inactive context with a Default parent, else _parent.
parent(c, cu, t, n) ==
    IF ~c[n].active /\ c[n].parent = DefaultP THEN GrabNode(cu, t) ELSE c[n].parent

\* XContext.parent_chain of n: n and its parents in priority order (for a
\* context whose parent property does not raise).
RECURSIVE parent_chain(_, _, _, _, _)
parent_chain(c, cu, t, n, k) ==
    IF k = 0 \/ parent(c, cu, t, n) \notin Nodes \/ parent(c, cu, t, n) = n THEN <<n>>
    ELSE <<n>> \o parent_chain(GrabCtx(c, cu, t), GrabCur(cu, t), t, parent(c, cu, t, n), k - 1)

\* The parent chain of n as thread t sees it in the current state.
chain(t, n) == parent_chain(ctx, cur, t, n, Cardinality(Nodes))

\* The members of a sequence.
Range(s) == {s[i] : i \in 1..Len(s)}

\* The members of sequence s before the first occurrence of x (none when x
\* does not occur).
Before(s, x) == {s[i] : i \in {j \in 1..Len(s) : \E l \in j + 1..Len(s) : s[l] = x
                                                  /\ \A q \in 1..j : s[q] # x}}

\* This step is a whole call n.dependency(ty, create=cr) of thread t.
GetReturns(t, n, cr) ==
    /\ res[t].op # "get"
    /\ res'[t].op = "get"
    /\ res'[t].node = n
    /\ res'[t].create = cr

\* Neither _dependencies nor _cached_parent_dependencies of n has the type.
Blank(n) == ctx[n].deps = NoneV /\ ctx[n].cache = NoneV

(* --------------------------- claims C11 to C20 ------------------------- *)

\* C11: lazy creation placement: when no context of the parent chain of an
\* active context n has the type, n.dependency(ty) constructs one object and
\* stores it in one _dependencies only: the app-root's for a thread sharable
\* type when the chain ends at the app-root, the calling thread's thread-root
\* for a type that is not thread sharable, the top of the chain when the
\* chain does not end at the app-root; the contexts of the chain below that
\* owner have it cached only.  (The app-root itself is not asked: its gate
\* answers None for a type that is not thread sharable.)
C11_LazyPlacement ==
    [][\A t \in Threads, n \in Nodes :
          LET ch == chain(t, n)
              top == ch[Len(ch)]
              owner == IF top # appRoot THEN top
                       ELSE IF is_dependency_thread_sharable(ty) THEN appRoot
                       ELSE ThreadRootId(t)
              x == res'[t].val
          IN  (GetReturns(t, n, TRUE) /\ n # appRoot /\ ctx[n].active
                  /\ \A m \in Range(ch) : Blank(m))
                  => /\ res'[t].err = "none"
                     /\ x = nextInst
                     /\ nextInst' = nextInst + 1
                     /\ {m \in Nodes : ctx'[m].deps = x} = {owner}
                     /\ \A m \in Before(ch, owner) :
                           ctx'[m].cache = x /\ ctx'[m].deps = NoneV]_vars

\* What the contexts of a parent chain resolve to without creating: the
\* object of the first context that has one, in _dependencies or else in
\* _cached_parent_dependencies; None when there is none, or when the search
\* comes to the app-root's gate for a type that is not thread sharable.
RECURSIVE Resolved(_, _)
Resolved(ch, i) ==
    IF i > Len(ch) THEN NoneV
    ELSE IF ctx[ch[i]].deps # NoneV THEN ctx[ch[i]].deps
    ELSE IF ctx[ch[i]].cache # NoneV THEN ctx[ch[i]].cache
    ELSE IF ctx[ch[i]].isAppRoot /\ ~is_dependency_thread_sharable(ty) THEN NoneV
    ELSE Resolved(ch, i + 1)

C13_Idempotent ==
    \A t \in Threads :
        (res[t].op = "get" /\ res[t].again)
            => (res[t].err = "none" /\ res[t].val = res[t].prev)

\* This step is n.__enter__() on thread t.
Enters(t, n) == entered'[t] = Append(entered[t], [node |-> n, before |-> cur[t]])

\* This step is an __exit__ of some thread.
Exits == \E t \in Threads : res[t].op # "exit" /\ res'[t].op = "exit"

\* What the claim C14 states of the step that enters the active context n
\* on thread t, the copy getting the parent p.
ReentrantCopy(t, n, p) ==
    LET new == cur'[t]
    IN  /\ new # n
        /\ ~ctx[new].alloc
        /\ ctx'[new].active
        /\ ctx'[new].sibling = n
        /\ ctx'[new].deps = ctx[n].deps
        /\ ctx'[new].parent = p
        /\ ctx'[n].active
        /\ ctx'[n].sibling = ctx[n].sibling
        /\ ctx'[n].parent = ctx[n].parent

\* C14: re-entrant activation: entering a context that is already active
\* leaves that object as it is and makes current a new active context whose
\* sibling is the original, whose _dependencies equal the original's and
\* whose parent is the context that was current; no step but an exit
\* deactivates a context.
C14_Reentrant ==
    [][/\ \A t \in Threads, n \in Nodes :
             (Enters(t, n) /\ ctx[n].active) => ReentrantCopy(t, n, cur[t])
       /\ \A m \in Nodes : (ctx[m].active /\ ~ctx'[m].active) => Exits]_vars

\* C14 as the code has it: the copy of a context that was created with
\* parent=None has no parent; every other copy has the context that was
\* current as its parent.
C14_ReentrantAmended ==
    [][/\ \A t \in Threads, n \in Nodes :
             (Enters(t, n) /\ ctx[n].active)
                 => ReentrantCopy(t, n, IF ctx[n].origNone THEN NoneV ELSE cur[t])
       /\ \A m \in Nodes : (ctx[m].active /\ ~ctx'[m].active) => Exits]_vars

\* A thread is inside the copy of an active context that holds the type; the
\* copy's parent is the context that was current when it was made.
C14_Witness ==
    \E t \in Threads :
        /\ cur[t] \in Nodes
        /\ entered[t] # <<>>
        /\ ctx[cur[t]].sibling = Innermost(t)
        /\ ctx[cur[t]].active
        /\ ctx[Innermost(t)].active
        /\ ctx[cur[t]].deps # NoneV
        /\ ctx[cur[t]].deps = ctx[Innermost(t)].deps
        /\ ctx[cur[t]].parent = entered[t][Len(entered[t])].before
        /\ ctx[cur[t]].parent # NoneV

\* The contexts add on n forwards to: n's _sibling, its _sibling, and so on.
RECURSIVE Siblings(_, _)
Siblings(n, k) ==
    IF k = 0 \/ ctx[n].sibling = NoneV THEN {}
    ELSE {ctx[n].sibling} \cup Siblings(ctx[n].sibling, k - 1)

\* C15: sibling forwarding: after add(x) on a context that has a sibling, the
\* context, its sibling and the siblings further up hold x locally; and the
\* get that follows on one of those siblings, directly or after the exit
\* that ends the copy's scope, returns x.
C15_SiblingForward ==
    \A t \in Threads :
        /\ (res[t].op = "add" /\ ctx[res[t].node].sibling # NoneV)
              => \A o \in {res[t].node} \cup Siblings(res[t].node, MaxNodes) :
                    ctx[o].deps = res[t].val
        /\ (res[t].op = "get" /\ res[t].added # NoneV
                /\ res[t].node \in Siblings(res[t].addedTo, MaxNodes))
              => (res[t].err = "none" /\ res[t].val = res[t].added)

\* x was added to the copy of a copy, the copy's scope was left, and the get
\* on the outermost original returned x.
C15_Witness ==
    \E t \in Threads :
        /\ GetDone(t)
        /\ res[t].added # NoneV
        /\ res[t].exited = res[t].addedTo
        /\ ~ctx[res[t].addedTo].active
        /\ ctx[res[t].addedTo].sibling # NoneV
        /\ res[t].node = ctx[ctx[res[t].addedTo].sibling].sibling
        /\ res[t].val = res[t].added

C18_Disposable ==
    \A t \in Threads :
        (res[t].op = "exit" /\ res[t].err = "none" /\ res[t].added # NoneV
            /\ res[t].addedTo = res[t].val /\ ctx[res[t].val].sibling = NoneV)
            => \A m \in Nodes : ctx[m].deps # res[t].added

\* This step makes a context current on thread t, which had none, without
\* entering a scope: XContext.grab creates the thread-root (called by the
\* program, or by XContext.parent of an inactive context).
Bootstraps(t) == cur[t] = NoneV /\ cur'[t] # NoneV /\ entered'[t] = entered[t]

\* C19: bootstrap: XContext.grab on a thread without a current context
\* creates a new object, the thread's root: active, its parent the app-root,
\* its parent chain [thread-root, app-root], the app-root without a parent.
\* While the thread enters and leaves no scope, that thread-root stays its
\* current context.  The thread-roots of different threads are different
\* objects, each with the one app-root as its parent.
C19_Bootstrap ==
    [][\A t \in Threads :
          /\ Bootstraps(t)
                => LET r == cur'[t]
                   IN  /\ ~ctx[r].alloc
                       /\ ctx'[r].alloc
                       /\ ctx'[r].isThreadRoot
                       /\ ctx'[r].active
                       /\ ctx'[r].parent = appRoot
                       /\ parent_chain(ctx', cur', t, r, Cardinality(Nodes)) = <<r, appRoot>>
                       /\ ctx'[appRoot].isAppRoot
                       /\ ctx'[appRoot].parent = NoneV
                       /\ \A u \in Threads \ {t} : cur'[u] # r
          /\ (cur[t] # NoneV /\ ctx[cur[t]].isThreadRoot /\ entered'[t] = entered[t])
                => cur'[t] = cur[t]
          /\ \A u \in Threads \ {t} :
                (cur'[t] # NoneV /\ cur'[u] # NoneV /\ ctx'[cur'[t]].isThreadRoot
                    /\ ctx'[cur'[u]].isThreadRoot)
                    => /\ cur'[t] # cur'[u]
                       /\ ctx'[cur'[t]].parent = ctx'[cur'[u]].parent]_vars

\* Both threads have their thread-root current, and one of them has just
\* left a scope it had entered below its thread-root.
C19_Witness ==
    /\ \A t \in Threads :
          /\ cur[t] # NoneV
          /\ ctx[cur[t]].isThreadRoot
          /\ ctx[cur[t]].active
          /\ ctx[cur[t]].parent = appRoot
          /\ entered[t] = <<>>
    /\ \E t, u \in Threads : cur[t] # cur[u]
    /\ \E t \in Threads :
          res[t].op = "exit" /\ res[t].err = "none" /\ res[t].before = cur[t]

\* C20: entering a context with a Default parent on a thread that has no
\* current context first creates the thread's root and resolves the
\* context's parent to it: the parent chain of the entered context is
\* [context, thread-root, app-root].
C20_EnterBootstraps ==
    [][\A t \in Threads, n \in Nodes :
          (Enters(t, n) /\ ~ctx[n].active /\ ctx[n].parent = DefaultP /\ cur[t] = NoneV)
              => LET r == ctx'[n].parent
                 IN  /\ r \in Nodes \ {appRoot}
                     /\ ctx'[r].alloc
                     /\ ctx'[r].isThreadRoot
                     /\ ctx'[r].parent = appRoot
                     /\ parent_chain(ctx', cur', t, n, Cardinality(Nodes)) = <<n, r, appRoot>>]_vars

(* ------------------- notions of the claims C21 to C30 ------------------ *)

\* Thread t is inside the one scope of n that it entered while it had no
\* current context and no thread-root; n was created with a Default parent
\* and holds the dependency (XContext(dependencies=x), as
\* Dependency.__enter__ creates it).
InFirstScope(t, n) ==
    /\ entered[t] = <<[node |-> n, before |-> NoneV]>>
    /\ cur[t] = n
    /\ ctx[n].sibling = NoneV
    /\ ctx[n].deps # NoneV
    /\ ~ctx[n].origNone
    /\ ~ctx[ThreadRootId(t)].alloc

\* This step is the return of __exit__ of n on thread t.
ExitReturns(t, n) ==
    /\ Len(entered'[t]) < Len(entered[t])
    /\ res'[t].op = "exit"
    /\ res'[t].node = n

\* This step is a call of __exit__ of n on thread t.
ExitCalled(t, n) ==
    /\ res[t].op # "exit"
    /\ res'[t].op = "exit"
    /\ res'[t].node = n

\* One thread whose exits need not match its enters: the program enters the
\* contexts it created and calls __exit__ on any of them at any time.
NextUnordered ==
    \/ Built /\ Create(MainThread, DefaultP)
    \/ Grab(MainThread)
    \/ \E n \in Program : (ctx[n].active => Built) /\ Enter(MainThread, n)
    \/ \E n \in Program : Exit(MainThread, n)
    \/ Return(MainThread)

SpecUnordered == Init /\ [][NextUnordered]_vars

\* Two threads and resets: each thread gets its thread-root, adds to the
\* app-root or to its current context and asks them for the dependency; one
\* context of the program is entered and left; any thread resets the globals
\* at any time between the calls, and deep-copies a context.
NextReset ==
    \/ nextId = FirstId /\ Alone(MainThread) /\ Create(MainThread, DefaultP)
    \/ \E t \in Threads : Alone(t) /\ cur[t] = NoneV /\ Grab(t)
    \/ \E t \in Threads, n \in Nodes :
          Alone(t) /\ cur[t] # NoneV /\ n \in {appRoot, cur[t]} /\ Add(t, n)
    \/ \E t \in Threads, n \in Nodes :
          Alone(t) /\ cur[t] # NoneV /\ n \in {appRoot, cur[t]} /\ Get(t, n, TRUE)
    \/ \E t \in Threads, n \in Program :
          Alone(t) /\ cur[t] # NoneV /\ ~ctx[n].active /\ Enter(t, n)
    \/ \E t \in Threads :
          Alone(t) /\ Idle(t) /\ entered[t] # <<>> /\ Exit(t, Innermost(t))
    \/ \E t \in Threads : Alone(t) /\ Reset(t)
    \/ \E t \in Threads, n \in Nodes : Alone(t) /\ DeepCopy(t, n)
    \/ \E t \in Threads : Return(t)

SpecReset == Init /\ [][NextReset]_vars

\* This step is a call of copy.deepcopy(n) on thread t.
DeepCopyCalled(t, n) ==
    /\ res[t].op # "deepcopy"
    /\ res'[t].op = "deepcopy"
    /\ res'[t].node = n

\* Two threads and a type that does not derive from Dependency: each thread
\* gets its thread-root, enters and leaves the one context of the program,
\* adds an object of the type to its current context and asks the app-root
\* or its current context for the type.
NextAny ==
    \/ nextId = FirstId /\ Alone(MainThread) /\ Create(MainThread, DefaultP)
    \/ \E t \in Threads : Alone(t) /\ cur[t] = NoneV /\ Grab(t)
    \/ \E t \in Threads : Alone(t) /\ cur[t] # NoneV /\ Add(t, cur[t])
    \/ \E t \in Threads, n \in Nodes, cr \in BOOLEAN :
          Alone(t) /\ cur[t] # NoneV /\ n \in {appRoot, cur[t]} /\ Get(t, n, cr)
    \/ \E t \in Threads, n \in Program :
          Alone(t) /\ cur[t] # NoneV /\ ~ctx[n].active /\ Enter(t, n)
    \/ \E t \in Threads :
          Alone(t) /\ Idle(t) /\ entered[t] # <<>> /\ Exit(t, Innermost(t))
    \/ \E t \in Threads : Return(t)

SpecAny == InitWith({Undeclared}) /\ [][NextAny]_vars

(* --------------------------- claims C21 to C30 ------------------------- *)

\* C21: on a thread that has no thread-root and no current context (the
\* state directly after a reset), a context seeded with a dependency is
\* entered around a call: inside the call the get on the current context
\* returns the seeded object, and the matching exit raises nothing and leaves
\* the context inactive with the Default parent.
C21_ScopeWithoutThreadRoot ==
    [][\A t \in Threads, n \in Nodes :
          InFirstScope(t, n)
              => /\ \A cr \in BOOLEAN :
                        GetReturns(t, n, cr)
                            => res'[t].err = "none" /\ res'[t].val = ctx[n].deps
                 /\ ExitReturns(t, n)
                        => /\ res'[t].err = "none"
                           /\ ~ctx'[n].active
                           /\ ctx'[n].parent = DefaultP]_vars

\* C24: parent-state invariant: the parent of an active context is None or
\* a context, never Default; the parent of a context that is not active is
\* never a context (it is Default or None), also after an exit that raised.
C24_ParentState ==
    \A n \in Nodes :
        ctx[n].alloc
            => /\ ctx[n].active => ctx[n].parent # DefaultP
               /\ ~ctx[n].active => ctx[n].parent \notin Nodes

\* C25: after a matching exit the deactivated context (the context that
\* was current: the exited one, or its copy) is inactive, its cached parent
\* dependencies are empty, it is not among the children of its former
\* parent, its parent is Default again, or None when the parent was None,
\* and its own dependencies are unchanged.
C25_ExitPostState ==
    [][\A t \in Threads, n \in Nodes :
          (ExitReturns(t, n) /\ cur[t] \in Nodes /\ n \in {cur[t], ctx[cur[t]].sibling})
              => LET d == cur[t]
                     p == ctx[d].parent
                 IN  /\ ~ctx'[d].active
                     /\ ctx'[d].cache = NoneV
                     /\ p \in Nodes => d \notin ctx'[p].children
                     /\ ctx'[d].parent = (IF p = NoneV THEN NoneV ELSE DefaultP)
                     /\ ctx'[d].deps = ctx[d].deps]_vars

\* C26: children invariant: the _children of every context P, thread-roots
\* and app-root included, are exactly the active contexts whose parent is P.
C26_Children ==
    \A P \in Nodes :
        ctx[P].alloc
            => ctx[P].children = {n \in Nodes : ctx[n].alloc /\ ctx[n].active /\ ctx[n].parent = P}

\* C27: under properly nested enter and exit on each thread the check at
\* the end of __exit__ never fails: the context that is deactivated has no
\* children at that moment, with re-entrant activations and two threads
\* (an exit is always the exit of the scope the thread entered last, also
\* after an exit that raised).
C27_NoChildrenLeft ==
    \A t \in Threads : res[t].op = "exit" => res[t].err # "AssertionError:children"

\* C28: __exit__ of a context that is neither the current context of the
\* calling thread nor the sibling of the current context raises and changes
\* nothing: the current context of the thread and every context (active
\* flag, parent, dependencies, caches, pending reset tokens) are as before.
C28_UnmatchedExit ==
    [][\A t \in Threads, n \in Nodes :
          (/\ ExitCalled(t, n)
           /\ cur[t] # n
           /\ cur[t] \in Nodes => ctx[cur[t]].sibling # n)
              => /\ res'[t].err # "none"
                 /\ cur' = cur
                 /\ ctx' = ctx]_vars

\* C29: a get on a context N that is not active, has the Default parent and
\* does not hold the type is resolved through the context that is current on
\* the calling thread at that moment and leaves nothing cached in N: when the
\* current context holds the type the get returns its object, whatever an
\* earlier get on N returned.
C29_DynamicParentNoCache ==
    [][\A t \in Threads, N \in Nodes, cr \in BOOLEAN :
          (/\ GetReturns(t, N, cr)
           /\ ~ctx[N].active
           /\ ctx[N].parent = DefaultP
           /\ ctx[N].deps = NoneV
           /\ cur[t] \in Nodes)
              => /\ ctx'[N].cache = NoneV
                 /\ ctx[cur[t]].deps # NoneV
                        => res'[t].err = "none" /\ res'[t].val = ctx[cur[t]].deps]_vars

\* C22: reset gives a clean slate.  The reset allocates a new app-root
\* without dependencies and leaves no thread with a current context; the
\* next XContext.grab() of a thread creates a new thread-root without
\* dependencies whose parent is the present app-root; and a get through a
\* thread-root returns an object held by that thread-root or its app-root, or
\* one it constructs, hence nothing added or created before the reset.
C22_CleanSlate ==
    [][/\ appRoot' # appRoot
            => /\ ~ctx[appRoot'].alloc
               /\ ctx'[appRoot'] = AppRootContext
               /\ \A t \in Threads : cur'[t] = NoneV
       /\ \A t \in Threads :
            Bootstraps(t)
                => LET r == cur'[t]
                   IN  /\ ~ctx[r].alloc
                       /\ ctx'[r].deps = NoneV
                       /\ ctx'[r].cache = NoneV
                       /\ ctx'[r].parent = appRoot
       /\ \A t \in Threads, cr \in BOOLEAN :
            (/\ cur[t] # NoneV
             /\ cur[t] = ThreadRootId(t)
             /\ GetReturns(t, cur[t], cr)
             /\ res'[t].val # NoneV)
                => \/ res'[t].val \in {ctx[cur[t]].deps, ctx[cur[t]].cache, ctx[appRoot].deps}
                   \/ res'[t].val = nextInst /\ nextInst' = nextInst + 1]_vars

\* After a reset a thread got its new thread-root and a get through it
\* returned a new object, while the app-root of before the reset still holds
\* the object added to it.
C22_Witness ==
    \E t \in Threads :
        /\ appRoot # 1
        /\ ctx[1].deps # NoneV
        /\ cur[t] = ThreadRootId(t)
        /\ res[t].op = "get"
        /\ res[t].node = cur[t]
        /\ res[t].err = "none"
        /\ res[t].val \notin {NoneV, ctx[1].deps}

\* C23: deep-copying a context always fails with the library's own error
\* type (XInjectError, the successor of the UDependError of the test),
\* returns no context and leaves the context unchanged.
C23_DeepCopyFails ==
    [][\A t \in Threads, n \in Nodes :
          DeepCopyCalled(t, n)
              => /\ res'[t].err = "XInjectError"
                 /\ res'[t].val = NoneV
                 /\ ctx' = ctx]_vars

\* C30: get works for a type without a thread-sharability declaration (one
\* that does not derive from Dependency): when no context of the parent
\* chain of an active context n holds it, n.dependency(ty) raises nothing,
\* constructs an object, stores it in the app-root and returns it.
C30_UndeclaredType ==
    [][\A t \in Threads, n \in Nodes :
          (/\ ty = Undeclared
           /\ GetReturns(t, n, TRUE)
           /\ ctx[n].active
           /\ \A i \in 1..Len(chain(t, n)) : Blank(chain(t, n)[i]))
              => /\ res'[t].err = "none"
                 /\ res'[t].val = nextInst
                 /\ ctx'[appRoot].deps = nextInst]_vars

(* ------------------- notions of the claims C31 to C37 ------------------ *)

\* Two threads that share the one context of the program: each thread gets
\* its thread-root, the main thread may enter the shared context, each thread
\* adds to the shared context and asks it for the dependency, and the calls
\* overlap step by step.
NextShared ==
    \/ nextId = FirstId /\ Create(MainThread, DefaultP)
    \/ \E t \in Threads : cur[t] = NoneV /\ Grab(t)
    \/ \E n \in Program : cur[MainThread] # NoneV /\ ~ctx[n].active /\ Enter(MainThread, n)
    \/ \E t \in Threads, n \in Program : cur[t] # NoneV /\ Add(t, n)
    \/ \E t \in Threads, n \in Program, cr \in BOOLEAN :
          cur[t] # NoneV /\ GetCall(t, n, cr)
    \/ \E t \in Threads : GetStep(t)
    \/ \E t \in Threads : Return(t)

SpecShared == Init /\ [][NextShared]_vars

\* One thread, properly nested use as in SpecOne, that asks the contexts
\* for their parent chains instead of for dependencies.
NextChain ==
    \/ \E p \in {DefaultP, NoneV} : Create(MainThread, p)
    \/ Grab(MainThread)
    \/ \E n \in Program : Enter(MainThread, n)
    \/ /\ Idle(MainThread)
       /\ entered[MainThread] # <<>>
       /\ Exit(MainThread, Innermost(MainThread))
    \/ \E n \in Nodes : ParentChain(MainThread, n)
    \/ Return(MainThread)

SpecChain == Init /\ [][NextChain]_vars

\* This step is the return of n.parent_chain() on thread t.
ChainReturns(t, n) ==
    /\ res[t].op # "parent_chain"
    /\ res'[t].op = "parent_chain"
    /\ res'[t].node = n
    /\ res'[t].err = "none"

\* One thread and a type whose constructor raises at some calls and not at
\* others: the thread builds, enters and leaves contexts as in SpecOne and
\* asks the contexts for the dependency.
NextRaising ==
    \/ \E p \in {DefaultP, NoneV} : Built /\ Create(MainThread, p)
    \/ Grab(MainThread)
    \/ \E n \in Program : ~ctx[n].active /\ Enter(MainThread, n)
    \/ /\ Idle(MainThread)
       /\ entered[MainThread] # <<>>
       /\ Exit(MainThread, Innermost(MainThread))
    \/ \E n \in Nodes : GetRaising(MainThread, n)
    \/ \E n \in Nodes : Idle(MainThread) /\ Get(MainThread, n, TRUE)
    \/ Return(MainThread)

SpecRaising == Init /\ [][NextRaising]_vars

\* This step is n.dependency(ty) on thread t ending with the exception of
\* the constructor.
ConstructorRaised(t, n) ==
    /\ res[t].op # "get"
    /\ res'[t].op = "get"
    /\ res'[t].node = n
    /\ res'[t].err = "ConstructorError"

\* One thread that copies contexts: it builds contexts with parent Default
\* or None, adds to any context, enters the contexts that are not active
\* and leaves them in properly nested order, and copies any context, the
\* roots included.
NextCopy ==
    \/ \E p \in {DefaultP, NoneV} : Built /\ Create(MainThread, p)
    \/ Grab(MainThread)
    \/ \E n \in Nodes : Add(MainThread, n)
    \/ \E n \in Program : ~ctx[n].active /\ Enter(MainThread, n)
    \/ /\ Idle(MainThread)
       /\ entered[MainThread] # <<>>
       /\ Exit(MainThread, Innermost(MainThread))
    \/ \E n \in Nodes : Copy(MainThread, n)
    \/ Return(MainThread)

SpecCopy == Init /\ [][NextCopy]_vars

\* This step is the return of n.copy() on thread t.
CopyReturns(t, n) ==
    /\ res[t].op # "copy"
    /\ res'[t].op = "copy"
    /\ res'[t].node = n

(* --------------------------- claims C31 to C37 ------------------------- *)

\* C37: in every state and for every context, the type is not both in
\* _dependencies and in _cached_parent_dependencies: add and the lazy
\* creation leave no cached entry for the type they store.
C37_StoreCacheDisjoint ==
    \A n \in Nodes : ctx[n].alloc => ~(ctx[n].deps # NoneV /\ ctx[n].cache # NoneV)

\* C36: n.dependency(ty, create=True) returns None in exactly one
\* situation: n is the app-root, the type is not thread-sharable and the
\* app-root does not hold it.  On a thread-root, on every other active
\* context and on every context that is not active a call that returns
\* returns an object.
C36_NoneOnlyAtAppRoot ==
    [][\A t \in Threads, n \in Nodes :
          (GetReturns(t, n, TRUE) /\ res'[t].err = "none")
              => (res'[t].val = NoneV
                    <=> ctx[n].isAppRoot /\ ty = "P" /\ ctx[n].deps = NoneV)]_vars

\* The app-root returned None for the type that is not thread-sharable, and
\* a context that is not active and holds nothing has the object its get
\* returned.
C36_Witness ==
    \E t \in Threads :
        /\ GetDone(t)
        /\ res[t].create
        /\ res[t].node = appRoot
        /\ res[t].val = NoneV
        /\ ty = "P"
        /\ \E n \in Program : ctx[n].alloc /\ ~ctx[n].active /\ ctx[n].cache # NoneV

\* C35: a context that has been exited can be entered again and exited,
\* an original context as well as a copy that a re-entrant enter created (a
\* context with a sibling): the exit of a scope in which the entered object
\* itself is the current context (its parent not being the app-root) raises
\* nothing, deactivates it and restores the context that was current before
\* the enter.
C35_Reactivate ==
    [][\A t \in Threads, n \in Nodes :
          (/\ ExitReturns(t, n)
           /\ Innermost(t) = n
           /\ cur[t] = n
           /\ ctx[n].parent # appRoot)
              => /\ res'[t].err = "none"
                 /\ ~ctx'[n].active
                 /\ cur'[t] = entered[t][Len(entered[t])].before]_vars

\* C32: the list n.parent_chain() returns has no repeated context, starts
\* with n, every next element is the parent of the one before it, and the
\* last element has no parent; when n is active every element is active; and
\* a list returned from the cache equals the list that following the parents
\* gives at that moment.
C32_ParentChain ==
    [][\A t \in Threads, n \in Nodes :
          ChainReturns(t, n)
              => LET ch == res'[t].chain
                     now == chain_from(ctx, cur, t, n, Cardinality(Nodes))
                 IN  /\ ch # <<>>
                     /\ ch[1] = n
                     /\ \A i, j \in 1..Len(ch) : i # j => ch[i] # ch[j]
                     /\ \A i \in 1..(Len(ch) - 1) : parent(ctx', cur', t, ch[i]) = ch[i + 1]
                     /\ parent(ctx', cur', t, ch[Len(ch)]) = NoneV
                     /\ ctx[n].active => \A i \in 1..Len(ch) : ctx'[ch[i]].active
                     /\ now.err = "none" /\ ch = now.chain]_vars

\* C33: the activation stack is per thread also for a context object that
\* two threads share: the exit of the scope a thread entered last raises
\* nothing and restores the context that was current on that thread before
\* the matching enter, and no enter or exit of a thread changes the current
\* context of another thread.
C33_PerThreadStack ==
    [][\A t \in Threads, n \in Nodes :
          /\ (ExitReturns(t, n) /\ Innermost(t) = n)
                => /\ res'[t].err = "none"
                   /\ cur'[t] = entered[t][Len(entered[t])].before
          /\ (ExitReturns(t, n) \/ Enters(t, n))
                => \A u \in Threads \ {t} : cur'[u] = cur[u]]_vars

\* C34: when the construction of the object fails inside n.dependency(ty),
\* the caller gets that failure and no partial state remains: no context
\* has got the type in _dependencies or _cached_parent_dependencies, no
\* object was constructed, and the same call made again, with a constructor
\* that works (and an object of Insts left to construct), constructs the
\* object and returns it.
C34_ConstructorFails ==
    [][\A t \in Threads, n \in Nodes :
          ConstructorRaised(t, n)
              => LET later == dependency([ctx |-> ctx', cur |-> cur', nextInst |-> nextInst',
                                           maker |-> maker', stack |-> <<Frame(n)>>,
                                           status |-> "run", ret |-> NoneV, fails |-> FALSE],
                                          t, TRUE)
                 IN  /\ \A m \in Nodes :
                          /\ ctx'[m].deps = ctx[m].deps
                          /\ ctx'[m].cache = ctx[m].cache
                     /\ nextInst' = nextInst
                     /\ nextInst <= MaxInst
                          => /\ later.status = "done"
                             /\ later.ret = nextInst
                             /\ \E m \in Nodes : later.ctx[m].deps = nextInst]_vars

\* The constructor raised in a get on an entered context below the
\* thread-root, and nothing in its chain has the type.
C34_Witness ==
    \E t \in Threads :
        /\ res[t].op = "get"
        /\ res[t].err = "ConstructorError"
        /\ res[t].node \in Program
        /\ ctx[res[t].node].active
        /\ ctx[res[t].node].parent = ThreadRootId(t)
        /\ nextInst <= MaxInst
        /\ \A i \in 1..Len(chain(t, res[t].node)) : Blank(chain(t, res[t].node)[i])

\* C31: n.copy() returns a new context object, different from n and not
\* active, with the same objects in _dependencies as n, nothing cached, no
\* children, no sibling and no pending reset token; its parent is None when
\* n was created with parent None, and Default otherwise (also for the
\* activated app-root and for a thread-root); n is unchanged.
C31_Copy ==
    [][\A t \in Threads, n \in Nodes :
          CopyReturns(t, n)
              => LET new == res'[t].val
                 IN  /\ new \in Nodes \ {n}
                     /\ ~ctx[new].alloc
                     /\ ctx'[new].alloc
                     /\ ~ctx'[new].active
                     /\ ctx'[new].deps = ctx[n].deps
                     /\ ctx'[new].cache = NoneV
                     /\ ctx'[new].cached_chain = <<>>
                     /\ ctx'[new].children = {}
                     /\ ctx'[new].sibling = NoneV
                     /\ ctx'[new].tokens = <<>>
                     /\ ~ctx'[new].isAppRoot /\ ~ctx'[new].isThreadRoot
                     /\ ctx'[new].parent = (IF ctx[n].origNone THEN NoneV ELSE DefaultP)
                     /\ ctx[n].isAppRoot \/ ctx[n].isThreadRoot => ctx'[new].parent = DefaultP
                     /\ ctx'[n] = ctx[n]]_vars

\* An entered context that was created with parent None and holds an
\* object has been copied.
C31_Witness ==
    \E t \in Threads :
        /\ res[t].op = "copy"
        /\ ctx[res[t].node].origNone
        /\ ctx[res[t].node].active
        /\ ctx[res[t].node].deps # NoneV
        /\ ctx[res[t].val].deps = ctx[res[t].node].deps
        /\ ctx[res[t].val].parent = NoneV

====
